---- MODULE Spec2Model ----
(***************************************************************************)
(* Model of ds::vec<T> (include/libds/vec.hpp): a dynamic array that owns  *)
(* one malloc'ed buffer.  The state is the fields of each vec object       *)
(* (size_, capacity_, data_), the C heap the buffers live in, and a record *)
(* of the public call that was made last (the object as it was when the    *)
(* call was made, the arguments and how the call ended).  T is a trivially  *)
(* copyable, trivially destructible value type (the tests use unsigned),   *)
(* so element destructors have no effect.                                  *)
(* Sizes and capacities stay far below the width of size_type: no sum or   *)
(* product of the code wraps.  What the C library leaves open (whether an  *)
(* allocation succeeds, where a block lands, what realloc(nullptr, 0)      *)
(* returns) and what a read past the end of a block yields are choices     *)
(* among every outcome.                                                    *)
(***************************************************************************)
EXTENDS Integers, Sequences, FiniteSets, TLC

\* ---------------------------------------------------------------- bounds
\* Largest capacity of a vec when one vec is followed alone (SpecSolo), and
\* when two are followed together (Spec).
MaxCap == 6
PairCap == 2

\* ------------------------------------------------------------ the domain
VecIds == {"a", "b"}
\* Element values of T.
Val == {1, 2}
\* Heap addresses; Null is nullptr.
Addr == {1, 2, 3}
Null == 0
\* The indeterminate content of a slot malloc/realloc hands out, or of a
\* slot read past the end of a block.
Garbage == 0

VARIABLES vecs, mem, last
vars == <<vecs, mem, last>>

\* ------------------------------------------------------------- the heap
FreeBlock == [live |-> FALSE, cells |-> <<>>]
NoVec == [alive |-> FALSE, size |-> 0, cap |-> 0, data |-> Null]

\* The addresses the allocator may hand out: those of no live block.
FreshAddrs(m) == {p \in Addr : ~m[p].live}

Filled(n, x) == [i \in 1..n |-> x]

\* The first n slots of cells, extended with indeterminate slots.
Resized(cells, n) ==
    [i \in 1..n |-> IF i <= Len(cells) THEN cells[i] ELSE Garbage]

\* std::malloc(n * sizeof(T)): a null pointer (failure; for n = 0 also a
\* legal answer), or a block no live block shares its address with.
Malloc(m, n) ==
    {[ptr |-> Null, mem |-> m]}
    \cup
    {[ptr |-> p,
      mem |-> [m EXCEPT ![p] = [live |-> TRUE, cells |-> Filled(n, Garbage)]]]
        : p \in FreshAddrs(m)}

\* std::free(p): free(nullptr) does nothing.
Free(m, p) == IF p = Null THEN m ELSE [m EXCEPT ![p] = FreeBlock]

\* std::realloc(p, n * sizeof(T)) for n > 0 or p = nullptr (the only calls
\* the class makes): realloc(nullptr, n) is malloc(n); otherwise it fails
\* and leaves the block alone, resizes it in place, or moves it.
Realloc(m, p, n) ==
    IF p = Null THEN Malloc(m, n)
    ELSE
        {[ptr |-> Null, mem |-> m]}
        \cup
        {[ptr |-> p,
          mem |-> [m EXCEPT ![p].cells = Resized(m[p].cells, n)]]}
        \cup
        {[ptr |-> q,
          mem |-> [m EXCEPT ![q] = [live |-> TRUE,
                                    cells |-> Resized(m[p].cells, n)],
                            ![p] = FreeBlock]]
            : q \in FreshAddrs(m)}

\* ------------------------------------------------------ private helpers
\* Each helper yields the set of ways the call can end: st is "ok" (it
\* returned), "threw" (std::runtime_error), "crashed" (a memory fault: the
\* process is gone) or "hung" (it never returns).

\* Iterations the growth loop of shift_ is followed for before the call is
\* reported as hung.
LoopFuel == 8

\* Variant of next_capacity_ that doubles.
next_capacity_double(cap) == IF cap <= 1 THEN 2 ELSE cap + cap

next_capacity_(cap) == IF cap <= 1 THEN 2 ELSE cap + (cap \div 2)

alloc_(m, cap) ==
    IF cap = 0 THEN {[st |-> "ok", ptr |-> Null, mem |-> m]}
    ELSE {[st |-> IF r.ptr = Null THEN "threw" ELSE "ok",
           ptr |-> r.ptr, mem |-> r.mem] : r \in Malloc(m, cap)}

\* T is trivially destructible: the destructor loop does nothing.
free_(vec, m) ==
    [vec   |-> [vec EXCEPT !.data = Null],
     mem   |-> Free(m, vec.data),
     freed |-> IF vec.data = Null THEN <<>> ELSE <<vec.data>>]

\* Variant of resize_ that gives the old buffer up before it asks for the
\* new one, whatever new_cap is.
resize_free_first(vec, m, new_cap) ==
    LET f == free_(vec, m)
    IN  {IF r.ptr = Null
           THEN [st |-> "threw", vec |-> f.vec, mem |-> f.mem, freed |-> f.freed]
           ELSE [st |-> "ok",
                 vec |-> [f.vec EXCEPT !.data = r.ptr, !.cap = new_cap],
                 mem |-> r.mem, freed |-> f.freed]
         : r \in Realloc(f.mem, f.vec.data, new_cap)}

resize_(vec, m, new_cap) ==
    LET f == IF new_cap = 0 THEN free_(vec, m)
             ELSE [vec |-> vec, mem |-> m, freed |-> <<>>]
    IN  {IF r.ptr = Null
           THEN [st |-> "threw", vec |-> f.vec, mem |-> f.mem, freed |-> f.freed]
           ELSE [st |-> "ok",
                 vec |-> [f.vec EXCEPT !.data = r.ptr, !.cap = new_cap],
                 mem |-> r.mem, freed |-> f.freed]
         : r \in Realloc(f.mem, f.vec.data, new_cap)}

\* Slot by slot copy from the front, as memcpy may do it: cells after the
\* first i - 1 of n slots went from soff to doff within one block.
RECURSIVE ForwardCopy(_, _, _, _, _)
ForwardCopy(cells, doff, soff, n, i) ==
    IF i > n \/ doff + i > Len(cells) \/ soff + i > Len(cells) THEN cells
    ELSE ForwardCopy([cells EXCEPT ![doff + i] = cells[soff + i]],
                     doff, soff, n, i + 1)

\* Variant of copy_ that is memcpy: overlapping ranges are not catered for.
copy_memcpy(m, dest, doff, src, soff, n) ==
    IF n = 0 THEN {[st |-> "ok", mem |-> m]}
    ELSE IF dest = Null \/ src = Null THEN {[st |-> "crashed", mem |-> m]}
    ELSE IF dest = src
        THEN {[st |-> "ok",
               mem |-> [m EXCEPT ![dest].cells =
                          ForwardCopy(@, doff, soff, n, 1)]]}
    ELSE {[st |-> "ok",
           mem |-> [m EXCEPT ![dest].cells =
                      [j \in 1..Len(@) |->
                         IF doff < j /\ j <= doff + n
                              /\ soff + j - doff <= Len(m[src].cells)
                           THEN m[src].cells[soff + j - doff] ELSE @[j]]]]}

\* std::memmove of n slots from slot soff of block src to slot doff of block
\* dest (offsets count from 0).  Slots read past the end of the source block
\* are indeterminate, or the read faults; a null or freed block faults.
copy_(m, dest, doff, src, soff, n) ==
    IF n = 0 THEN {[st |-> "ok", mem |-> m]}
    ELSE IF dest = Null \/ src = Null THEN {[st |-> "crashed", mem |-> m]}
    ELSE IF ~m[dest].live \/ ~m[src].live \/ doff + n > Len(m[dest].cells)
        THEN {[st |-> "crashed", mem |-> m]}
    ELSE
        LET from == m[src].cells
            read == [i \in 1..n |-> IF soff + i <= Len(from)
                                      THEN from[soff + i] ELSE Garbage]
            to   == [j \in 1..Len(m[dest].cells) |->
                        IF doff < j /\ j <= doff + n
                          THEN read[j - doff] ELSE m[dest].cells[j]]
        IN  {[st |-> "ok", mem |-> [m EXCEPT ![dest].cells = to]]}
            \cup
            (IF soff + n > Len(from)
               THEN {[st |-> "crashed", mem |-> m]} ELSE {})

\* Variant of reserve that grows by the growth policy at least.
reserve_grow(vec, m, new_cap) ==
    IF new_cap > vec.cap
      THEN resize_(vec, m, IF new_cap > next_capacity_(vec.cap)
                             THEN new_cap ELSE next_capacity_(vec.cap))
      ELSE {[st |-> "ok", vec |-> vec, mem |-> m, freed |-> <<>>]}

reserve(vec, m, new_cap) ==
    IF new_cap > vec.cap THEN resize_(vec, m, new_cap)
    ELSE {[st |-> "ok", vec |-> vec, mem |-> m, freed |-> <<>>]}

\* The while loop of shift_: the capacity it stops at, or -1 when it is still
\* running after fuel rounds.
RECURSIVE GrowLoop(_, _, _)
GrowLoop(need, new_cap, fuel) ==
    IF need <= new_cap THEN new_cap
    ELSE IF fuel = 0 THEN -1
    ELSE GrowLoop(need, next_capacity_(new_cap), fuel - 1)

shift_(vec, m, start, places) ==
    LET new_cap == GrowLoop(vec.size + places, vec.cap, LoopFuel)
    IN  IF new_cap < 0
          THEN {[st |-> "hung", vec |-> vec, mem |-> m, freed |-> <<>>]}
          ELSE UNION {
                 IF r.st # "ok" THEN {r}
                 ELSE {[st    |-> c.st,
                        vec   |-> IF c.st = "ok"
                                    THEN [r.vec EXCEPT !.size = @ + places]
                                    ELSE r.vec,
                        mem   |-> c.mem,
                        freed |-> r.freed]
                       : c \in copy_(r.mem, r.vec.data, start + places,
                                     r.vec.data, start, r.vec.size - start)}
                 : r \in reserve(vec, m, new_cap)}

\* data_[pos + i - 1] = items[i] for every i: a fault when data_ is null.
Store(vec, m, pos, items) ==
    IF Len(items) = 0 THEN [st |-> "ok", mem |-> m]
    ELSE IF vec.data = Null \/ ~m[vec.data].live
            \/ pos + Len(items) > Len(m[vec.data].cells)
        THEN [st |-> "crashed", mem |-> m]
    ELSE [st  |-> "ok",
          mem |-> [m EXCEPT ![vec.data].cells =
                     [j \in 1..Len(@) |->
                        IF pos < j /\ j <= pos + Len(items)
                          THEN items[j - pos] ELSE @[j]]]]

\* ---------------------------------------------------- public operations
\* A public call ends as [st, self, other, mem, freed, ret, nread, val]: the
\* object it was made on, the object passed to it, the heap, the addresses it
\* passed to std::free, the iterator or reference it returned, the slots it
\* read from the other object's buffer and the bool it returned.
NoRet == [addr |-> Null, off |-> 0]
MovedFrom == [alive |-> TRUE, size |-> 0, cap |-> 0, data |-> Null]

Out(st, self, other, m, freed, ret, nread) ==
    [st |-> st, self |-> self, other |-> other, mem |-> m,
     freed |-> freed, ret |-> ret, nread |-> nread, val |-> FALSE]

\* explicit vec(size_type capacity)
ctor_capacity(m, capacity) ==
    {Out(r.st,
         IF r.st = "ok"
           THEN [alive |-> TRUE, size |-> 0, cap |-> capacity, data |-> r.ptr]
           ELSE NoVec,
         NoVec, r.mem, <<>>, NoRet, 0)
     : r \in alloc_(m, capacity)}

\* The element loop of the filling constructors: data_[i] = items[i].
Construct(r, items) ==
    LET new == [alive |-> TRUE, size |-> Len(items), cap |-> Len(items),
                data |-> r.ptr]
        s   == Store(new, r.mem, 0, items)
    IN  IF r.st # "ok" THEN Out(r.st, NoVec, NoVec, r.mem, <<>>, NoRet, 0)
        ELSE Out(s.st, IF s.st = "ok" THEN new ELSE NoVec, NoVec, s.mem,
                 <<>>, NoRet, 0)

\* explicit vec(size_type size, T elem)
ctor_fill(m, size, elem) ==
    {Construct(r, Filled(size, elem)) : r \in alloc_(m, size)}

\* vec(std::initializer_list<T> init)
ctor_list(m, init) ==
    {Construct(r, init) : r \in alloc_(m, Len(init))}

\* Variant of ctor_copy that copies the fields alone, the buffer pointer too.
ctor_copy_shallow(m, other) ==
    {Out("ok",
         [alive |-> TRUE, size |-> other.size, cap |-> other.cap,
          data |-> other.data],
         other, m, <<>>, NoRet, 0)}

\* vec(const vec& other)
ctor_copy(m, other) ==
    UNION {
      IF r.st # "ok" THEN {Out(r.st, NoVec, other, r.mem, <<>>, NoRet, 0)}
      ELSE {Out(c.st,
                IF c.st = "ok"
                  THEN [alive |-> TRUE, size |-> other.size,
                        cap |-> other.cap, data |-> r.ptr]
                  ELSE NoVec,
                other, c.mem, <<>>, NoRet, other.cap)
            : c \in copy_(r.mem, r.ptr, 0, other.data, 0, other.cap)}
      : r \in alloc_(m, other.cap)}

\* vec(vec&& other)
ctor_move(m, other) ==
    {Out("ok",
         [alive |-> TRUE, size |-> other.size, cap |-> other.cap,
          data |-> other.data],
         MovedFrom, m, <<>>, NoRet, 0)}

\* Variant of assign_copy that never resizes its buffer.
assign_copy_noresize(self, other, m, same) ==
    IF same THEN {Out("ok", self, other, m, <<>>, NoRet, 0)}
    ELSE LET sized == [self EXCEPT !.size = other.size]
         IN  {Out(c.st, sized, other, c.mem, <<>>, NoRet, sized.cap)
              : c \in copy_(m, sized.data, 0, other.data, 0, sized.cap)}

\* vec& operator=(const vec& other); same is this == &other.
assign_copy(self, other, m, same) ==
    IF same THEN {Out("ok", self, other, m, <<>>, NoRet, 0)}
    ELSE UNION {
      IF r.st # "ok" THEN {Out(r.st, r.vec, other, r.mem, r.freed, NoRet, 0)}
      ELSE LET sized == [r.vec EXCEPT !.size = other.size]
           IN  {Out(c.st, sized, other, c.mem, r.freed, NoRet, sized.cap)
                : c \in copy_(r.mem, sized.data, 0, other.data, 0, sized.cap)}
      : r \in IF self.cap < other.size
                THEN resize_(self, m, other.size)
                ELSE {[st |-> "ok", vec |-> self, mem |-> m, freed |-> <<>>]}}

\* Variant of assign_move that does not free the buffer it owns.
assign_move_leak(self, other, m, same) ==
    IF same THEN {Out("ok", self, other, m, <<>>, NoRet, 0)}
    ELSE {Out("ok",
              [self EXCEPT !.size = other.size, !.cap = other.cap,
                           !.data = other.data],
              MovedFrom, m, <<>>, NoRet, 0)}

\* Variant of assign_move without the self-assignment guard: other is the
\* object itself, read after free_ has run.
assign_move_unguarded(self, other, m, same) ==
    LET f   == free_(self, m)
        src == IF same THEN f.vec ELSE other
    IN  {Out("ok",
             [f.vec EXCEPT !.size = src.size, !.cap = src.cap,
                           !.data = src.data],
             MovedFrom, f.mem, f.freed, NoRet, 0)}

\* vec& operator=(vec&& other); same is this == &other.
assign_move(self, other, m, same) ==
    IF same THEN {Out("ok", self, other, m, <<>>, NoRet, 0)}
    ELSE LET f == free_(self, m)
         IN  {Out("ok",
                  [f.vec EXCEPT !.size = other.size, !.cap = other.cap,
                                !.data = other.data],
                  MovedFrom, f.mem, f.freed, NoRet, 0)}

\* ~vec()
dtor(self, m) ==
    LET f == free_(self, m)
    IN  {Out("ok", NoVec, NoVec, f.mem, f.freed, NoRet, 0)}

\* void reserve(size_type new_cap)
do_reserve(self, m, new_cap) ==
    {Out(r.st, r.vec, NoVec, r.mem, r.freed, NoRet, 0)
     : r \in reserve(self, m, new_cap)}

\* void shrink_to_fit()
shrink_to_fit(self, m) ==
    {Out(r.st, r.vec, NoVec, r.mem, r.freed, NoRet, 0)
     : r \in resize_(self, m, self.size)}

\* void clear()
clear(self, m) ==
    {Out("ok", [self EXCEPT !.size = 0], NoVec, m, <<>>, NoRet, 0)}

\* T& operator[](size_type pos): the reference data_ + pos, unchecked.
op_index(self, pos) == [addr |-> self.data, off |-> pos]

\* Variant of at that lets the position one past the last element through.
at_past_end(self, m, pos) ==
    IF pos > self.size
      THEN {Out("threw", self, NoVec, m, <<>>, NoRet, 0)}
      ELSE {Out("ok", self, NoVec, m, <<>>, op_index(self, pos), 0)}

\* T& at(size_type pos); the exception is std::out_of_range.
at(self, m, pos) ==
    IF pos >= self.size
      THEN {Out("threw", self, NoVec, m, <<>>, NoRet, 0)}
      ELSE {Out("ok", self, NoVec, m, <<>>, op_index(self, pos), 0)}

\* The tail of every insert: the stores into [pos, pos + count) and the
\* iterator data_ + pos.
Inserted(r, pos, items) ==
    LET s == Store(r.vec, r.mem, pos, items)
    IN  IF r.st # "ok" THEN Out(r.st, r.vec, NoVec, r.mem, r.freed, NoRet, 0)
        ELSE Out(s.st, r.vec, NoVec, s.mem, r.freed,
                 IF s.st = "ok" THEN [addr |-> r.vec.data, off |-> pos]
                                ELSE NoRet,
                 0)

\* iterator insert(size_type pos, const T& elem), and the T&& overload
insert(self, m, pos, elem) ==
    {Inserted(r, pos, <<elem>>) : r \in shift_(self, m, pos, 1)}

\* iterator insert(size_type pos, size_type count, const T& elem)
insert_count(self, m, pos, count, elem) ==
    {Inserted(r, pos, Filled(count, elem)) : r \in shift_(self, m, pos, count)}

\* iterator insert(size_type pos, std::initializer_list<T> elems)
insert_list(self, m, pos, elems) ==
    {Inserted(r, pos, elems) : r \in shift_(self, m, pos, Len(elems))}

\* What a read through the reference ref yields under heap m: the slot's
\* content while its block is allocated; once the block has been freed, any
\* value or a fault.
Deref(m, ref) ==
    IF ref.addr # Null /\ m[ref.addr].live
         /\ ref.off < Len(m[ref.addr].cells)
      THEN {[st |-> "ok", val |-> m[ref.addr].cells[ref.off + 1]]}
      ELSE {[st |-> "ok", val |-> x] : x \in Val \cup {Garbage}}
           \cup {[st |-> "crashed", val |-> Garbage]}

\* insert(pos, count, elem) with elem bound to (*this)[idx]: shift_ runs
\* first, and elem is read through the reference after it.  Every store of
\* the loop reads the same slot, and a store into that slot writes back what
\* it holds.
insert_count_ref(self, m, pos, count, idx) ==
    UNION {
      IF r.st # "ok" \/ count = 0 THEN {Inserted(r, pos, <<>>)}
      ELSE {IF e.st = "ok" THEN Inserted(r, pos, Filled(count, e.val))
            ELSE Out("crashed", r.vec, NoVec, r.mem, r.freed, NoRet, 0)
            : e \in Deref(r.mem, op_index(self, idx))}
      : r \in shift_(self, m, pos, count)}

\* insert(pos, elem) with elem bound to (*this)[idx].
insert_ref(self, m, pos, idx) ==
    UNION {
      IF r.st # "ok" THEN {Inserted(r, pos, <<>>)}
      ELSE {IF e.st = "ok" THEN Inserted(r, pos, <<e.val>>)
            ELSE Out("crashed", r.vec, NoVec, r.mem, r.freed, NoRet, 0)
            : e \in Deref(r.mem, op_index(self, idx))}
      : r \in shift_(self, m, pos, 1)}

\* A call that changes nothing and returns the bool val.
Answer(self, other, m, val) ==
    [Out("ok", self, other, m, <<>>, NoRet, 0) EXCEPT !.val = val]

\* Every slot below size_ can be read through operator[].
Readable(vec, m) ==
    \/ vec.size = 0
    \/ /\ vec.data # Null /\ m[vec.data].live
       /\ vec.size <= Len(m[vec.data].cells)

\* The loop of operator==, from index i on: false at the first i < lhs.size_
\* with lhs[i] != rhs[i], true when there is none.
RECURSIVE EqLoop(_, _, _, _)
EqLoop(lhs, rhs, m, i) ==
    IF i >= lhs.size THEN TRUE
    ELSE IF m[op_index(lhs, i).addr].cells[i + 1]
              # m[op_index(rhs, i).addr].cells[i + 1] THEN FALSE
    ELSE EqLoop(lhs, rhs, m, i + 1)

\* Variant of op_eq that compares the whole buffers, slots past size_ too.
op_eq_buffers(lhs, rhs, m, same) ==
    {Answer(lhs, rhs, m,
            /\ lhs.size = rhs.size
            /\ (IF lhs.data = Null THEN <<>> ELSE m[lhs.data].cells)
                 = (IF rhs.data = Null THEN <<>> ELSE m[rhs.data].cells))}

\* bool operator==(const vec& lhs, const vec& rhs); same is &lhs == &rhs.
op_eq(lhs, rhs, m, same) ==
    IF same THEN {Answer(lhs, rhs, m, TRUE)}
    ELSE IF lhs.size # rhs.size THEN {Answer(lhs, rhs, m, FALSE)}
    ELSE IF ~Readable(lhs, m) \/ ~Readable(rhs, m)
      THEN {Out("crashed", lhs, rhs, m, <<>>, NoRet, 0)}
    ELSE {Answer(lhs, rhs, m, EqLoop(lhs, rhs, m, 0))}

\* bool operator!=(const vec& lhs, const vec& rhs): !(lhs == rhs)
op_ne(lhs, rhs, m, same) ==
    {IF r.st = "ok" THEN [r EXCEPT !.val = ~r.val] ELSE r
     : r \in op_eq(lhs, rhs, m, same)}

\* ------------------------------------------------------------ the calls
\* Longest run of elements one insert call inserts, under SpecSolo and Spec.
MaxIns == 3
PairIns == 2

\* The sequences over Val of length at most n.
Lists(n) == UNION {[1..k -> Val] : k \in 0..n}

\* No call has been made, or the caller has moved on from the last one.
NoCall == [op |-> "none", v |-> "-", o |-> "-", was |-> NoVec, pos |-> 0,
           items |-> <<>>, n |-> 0, st |-> "ok", freed |-> <<>>, ret |-> NoRet,
           nread |-> 0, val |-> FALSE]

Init ==
    /\ vecs = [v \in VecIds |-> NoVec]
    /\ mem = [p \in Addr |-> FreeBlock]
    /\ last = NoCall

\* The caller is free to make its next call.
Running == last = NoCall

Alive(v) == vecs[v].alive

\* The state after the call op on v (with argument object o) ended as r.
Finish(op, v, o, pos, items, n, r) ==
    /\ vecs' = IF o = "-" \/ o = v THEN [vecs EXCEPT ![v] = r.self]
               ELSE [vecs EXCEPT ![v] = r.self, ![o] = r.other]
    /\ mem' = r.mem
    /\ last' = [op |-> op, v |-> v, o |-> o, was |-> vecs[v], pos |-> pos,
                items |-> items, n |-> n, st |-> r.st, freed |-> r.freed,
                ret |-> r.ret, nread |-> r.nread, val |-> r.val]

\* The capacity a call inserting count elements would grow to is at most cap.
InBounds(v, count, cap) ==
    GrowLoop(vecs[v].size + count, vecs[v].cap, LoopFuel) <= cap

\* The calls on one object v.  Their arguments are drawn from capacities up
\* to cap and inserted runs up to ins elements.

CtorCapacity(v, cap) ==
    /\ Running /\ ~Alive(v)
    /\ \E capacity \in 0..cap :
          \E r \in ctor_capacity(mem, capacity) :
             Finish("ctor_capacity", v, "-", 0, <<>>, capacity, r)

CtorFill(v, cap) ==
    /\ Running /\ ~Alive(v)
    /\ \E size \in 0..cap, elem \in Val :
          \E r \in ctor_fill(mem, size, elem) :
             Finish("ctor_fill", v, "-", 0, Filled(size, elem), size, r)

CtorList(v, cap) ==
    /\ Running /\ ~Alive(v)
    /\ \E init \in Lists(cap) :
          \E r \in ctor_list(mem, init) :
             Finish("ctor_list", v, "-", 0, init, Len(init), r)

Dtor(v) ==
    /\ Running /\ Alive(v)
    /\ \E r \in dtor(vecs[v], mem) : Finish("dtor", v, "-", 0, <<>>, 0, r)

Reserve(v, cap) ==
    /\ Running /\ Alive(v)
    /\ \E new_cap \in 0..cap :
          \E r \in do_reserve(vecs[v], mem, new_cap) :
             Finish("reserve", v, "-", 0, <<>>, new_cap, r)

ShrinkToFit(v) ==
    /\ Running /\ Alive(v)
    /\ \E r \in shrink_to_fit(vecs[v], mem) :
          Finish("shrink_to_fit", v, "-", 0, <<>>, 0, r)

Clear(v) ==
    /\ Running /\ Alive(v)
    /\ \E r \in clear(vecs[v], mem) : Finish("clear", v, "-", 0, <<>>, 0, r)

\* at takes any position, those past the end too.
At(v, cap) ==
    /\ Running /\ Alive(v)
    /\ \E pos \in 0..cap :
          \E r \in at(vecs[v], mem, pos) :
             Finish("at", v, "-", pos, <<>>, 0, r)

\* insert requires pos <= size().
Insert(v, cap) ==
    /\ Running /\ Alive(v) /\ InBounds(v, 1, cap)
    /\ \E pos \in 0..vecs[v].size, elem \in Val :
          \E r \in insert(vecs[v], mem, pos, elem) :
             Finish("insert", v, "-", pos, <<elem>>, 1, r)

InsertCount(v, cap, ins) ==
    /\ Running /\ Alive(v)
    /\ \E pos \in 0..vecs[v].size, count \in 0..ins, elem \in Val :
          /\ InBounds(v, count, cap)
          /\ \E r \in insert_count(vecs[v], mem, pos, count, elem) :
                Finish("insert_count", v, "-", pos, Filled(count, elem), count, r)

InsertList(v, cap, ins) ==
    /\ Running /\ Alive(v)
    /\ \E pos \in 0..vecs[v].size, elems \in Lists(ins) :
          /\ InBounds(v, Len(elems), cap)
          /\ \E r \in insert_list(vecs[v], mem, pos, elems) :
                Finish("insert_list", v, "-", pos, elems, Len(elems), r)

\* v.insert(pos, v[idx]): the argument is an element of v itself.  items is
\* the value that element holds when the call is made.
InsertRef(v, cap) ==
    /\ Running /\ Alive(v) /\ InBounds(v, 1, cap) /\ Readable(vecs[v], mem)
    /\ \E pos \in 0..vecs[v].size, idx \in 0..(vecs[v].size - 1) :
          \E r \in insert_ref(vecs[v], mem, pos, idx) :
             Finish("insert_ref", v, "-", pos,
                    <<mem[op_index(vecs[v], idx).addr].cells[idx + 1]>>,
                    idx, r)

\* v.insert(pos, count, v[idx])
InsertCountRef(v, cap, ins) ==
    /\ Running /\ Alive(v) /\ Readable(vecs[v], mem)
    /\ \E pos \in 0..vecs[v].size, idx \in 0..(vecs[v].size - 1),
          count \in 0..ins :
          /\ InBounds(v, count, cap)
          /\ \E r \in insert_count_ref(vecs[v], mem, pos, count, idx) :
                Finish("insert_count_ref", v, "-", pos,
                       Filled(count,
                              mem[op_index(vecs[v], idx).addr].cells[idx + 1]),
                       idx, r)

\* The calls on v that take another vec o.

CtorCopy(v, o) ==
    /\ Running /\ ~Alive(v) /\ Alive(o)
    /\ \E r \in ctor_copy(mem, vecs[o]) :
          Finish("ctor_copy", v, o, 0, <<>>, 0, r)

CtorMove(v, o) ==
    /\ Running /\ ~Alive(v) /\ Alive(o)
    /\ \E r \in ctor_move(mem, vecs[o]) :
          Finish("ctor_move", v, o, 0, <<>>, 0, r)

AssignCopy(v, o) ==
    /\ Running /\ Alive(v) /\ Alive(o)
    /\ \E r \in assign_copy(vecs[v], vecs[o], mem, v = o) :
          Finish("assign_copy", v, o, 0, <<>>, 0, r)

AssignMove(v, o) ==
    /\ Running /\ Alive(v) /\ Alive(o)
    /\ \E r \in assign_move(vecs[v], vecs[o], mem, v = o) :
          Finish("assign_move", v, o, 0, <<>>, 0, r)

\* v == o
Equals(v, o) ==
    /\ Running /\ Alive(v) /\ Alive(o)
    /\ \E r \in op_eq(vecs[v], vecs[o], mem, v = o) :
          Finish("eq", v, o, 0, <<>>, 0, r)

\* v != o
NotEquals(v, o) ==
    /\ Running /\ Alive(v) /\ Alive(o)
    /\ \E r \in op_ne(vecs[v], vecs[o], mem, v = o) :
          Finish("ne", v, o, 0, <<>>, 0, r)

\* The caller takes the outcome of the call (a return or an exception it
\* catches) and goes on.  A fault ends the process, and a call that hangs
\* never hands control back: neither is followed by anything.
Resume ==
    /\ last.op # "none" /\ last.st \in {"ok", "threw"}
    /\ last' = NoCall
    /\ UNCHANGED <<vecs, mem>>

OneVec(v, cap, ins) ==
    \/ CtorCapacity(v, cap)
    \/ CtorFill(v, cap)
    \/ CtorList(v, cap)
    \/ Dtor(v)
    \/ Reserve(v, cap)
    \/ ShrinkToFit(v)
    \/ Clear(v)
    \/ At(v, cap)
    \/ Insert(v, cap)
    \/ InsertCount(v, cap, ins)
    \/ InsertList(v, cap, ins)

TwoVec(v, o) ==
    \/ CtorCopy(v, o)
    \/ CtorMove(v, o)
    \/ AssignCopy(v, o)
    \/ AssignMove(v, o)
    \/ Equals(v, o)
    \/ NotEquals(v, o)

Next ==
    \/ Resume
    \/ \E v \in VecIds : OneVec(v, PairCap, PairIns)
    \/ \E v \in VecIds, o \in VecIds : TwoVec(v, o)

\* One vec followed alone, to larger capacities.
NextSolo ==
    \/ Resume
    \/ OneVec("a", MaxCap, MaxIns)
    \/ AssignCopy("a", "a")
    \/ AssignMove("a", "a")

\* One vec followed alone, with the inserts that take one of its own elements
\* as the argument.
NextAlias ==
    \/ NextSolo
    \/ InsertRef("a", MaxCap)
    \/ InsertCountRef("a", MaxCap, MaxIns)

Spec == Init /\ [][Next]_vars

SpecSolo == Init /\ [][NextSolo]_vars

SpecAlias == Init /\ [][NextAlias]_vars

\* ------------------------------------------------------------ properties
\* The elements of vec under heap m: slots [0, size) of its buffer.
Elems(vec, m) ==
    IF vec.data = Null THEN Filled(vec.size, Garbage)
    ELSE Resized(m[vec.data].cells, vec.size)

InsertOps == {"insert", "insert_count", "insert_list"}

\* The class invariant on the buffer pointer: null exactly when capacity is 0.
BufferMatchesCapacity(vec) == (vec.cap = 0) <=> (vec.data = Null)

\* C1 (invariant I2): after every public operation, capacity is 0 if and only
\* if the buffer pointer is null.
C1_CapacityZeroIffNull ==
    \A v \in VecIds : Alive(v) => BufferMatchesCapacity(vecs[v])

\* C2: every insert that returns has spliced the inserted elements in at pos:
\* elements before pos keep their index, those at or after pos move forward
\* by the inserted count, size grows by the inserted count and the returned
\* iterator is data_ + pos.  On a vec whose buffer matches its capacity an
\* insert returns or throws: it neither faults nor hangs.
C2_InsertSplices ==
    [][last'.op \in InsertOps =>
         LET v   == last'.v
             old == Elems(vecs[v], mem)
             new == Elems(vecs'[v], mem')
             pos == last'.pos
             k   == Len(last'.items)
         IN  /\ last'.st = "ok" =>
                  /\ vecs'[v].size = vecs[v].size + k
                  /\ Len(new) = Len(old) + k
                  /\ \A i \in 1..Len(new) :
                        new[i] = IF i <= pos THEN old[i]
                                 ELSE IF i <= pos + k THEN last'.items[i - pos]
                                 ELSE old[i - k]
                  /\ last'.ret = [addr |-> vecs'[v].data, off |-> pos]
             /\ BufferMatchesCapacity(vecs[v]) => last'.st \in {"ok", "threw"}
    ]_vars

\* An insert into the middle of a full vec of three elements has returned.
C2_Witness ==
    /\ last.op = "insert_list" /\ last.st = "ok"
    /\ last.was.size = 3 /\ last.was.cap = 3
    /\ last.pos = 1 /\ last.items = <<2, 1>>

\* The growth policy as the claim words it.
C3_NextCapacity(c) == IF c <= 1 THEN 2 ELSE c + (c \div 2)

\* The first capacity that holds need elements in c, next(c), next(next(c)), ...
RECURSIVE C3_FirstAtLeast(_, _)
C3_FirstAtLeast(need, c) ==
    IF c >= need THEN c ELSE C3_FirstAtLeast(need, C3_NextCapacity(c))

\* C3: an insert never shrinks the capacity; it leaves the capacity alone
\* when size + count fits, and otherwise makes it the first sufficient value
\* of the growth sequence; the search for it always ends.
C3_InsertGrowth ==
    [][last'.op \in InsertOps =>
         LET v    == last'.v
             need == vecs[v].size + Len(last'.items)
         IN  /\ last'.st # "hung"
             /\ vecs'[v].cap >= vecs[v].cap
             /\ last'.st = "ok" =>
                  vecs'[v].cap = IF need <= vecs[v].cap THEN vecs[v].cap
                                 ELSE C3_FirstAtLeast(need, vecs[v].cap)
    ]_vars

\* An insert of three elements into an empty vec of capacity 1 has grown it
\* through 2 to 3.
C3_Witness ==
    /\ last.op \in InsertOps /\ last.st = "ok"
    /\ last.was.size = 0 /\ last.was.cap = 1 /\ last.n = 3
    /\ vecs[last.v].cap = 3

CopyOps == {"ctor_copy", "assign_copy"}

\* C4: after copy construction or copy assignment from another vec, the copy
\* has the source's size and elements, a non-empty source's buffer is not
\* the copy's, and the source and its buffer are as they were.
C4_CopyEqualsSource ==
    [][(last'.op \in CopyOps /\ last'.v # last'.o /\ last'.st = "ok") =>
         LET b == vecs'[last'.v]
             a == vecs'[last'.o]
         IN  /\ b.alive
             /\ b.size = a.size
             /\ Elems(b, mem') = Elems(a, mem')
             /\ a.size > 0 =>
                  /\ b.data # a.data
                  /\ mem'[b.data].live /\ mem'[a.data].live
             /\ a = vecs[last'.o]
             /\ a.data # Null => mem'[a.data] = mem[a.data]
    ]_vars

\* A copy assignment of a two-element vec to a vec that had to be resized.
C4_Witness ==
    /\ last.op = "assign_copy" /\ last.v # last.o /\ last.st = "ok"
    /\ last.was.cap < 2
    /\ vecs[last.o].size = 2
    /\ Elems(vecs[last.o], mem) = <<1, 2>>

MoveOps == {"ctor_move", "assign_move"}

\* C5: a move from another vec hands over the source's size, capacity and
\* buffer with its content untouched, leaves the source empty with a null
\* buffer, and a move assignment frees the buffer the target owned, once.
C5_MoveTransfers ==
    [][(last'.op \in MoveOps /\ last'.v # last'.o) =>
         LET b   == vecs'[last'.v]
             a   == vecs[last'.o]
             old == vecs[last'.v].data
         IN  /\ last'.st = "ok"
             /\ b.alive
             /\ b.size = a.size /\ b.cap = a.cap /\ b.data = a.data
             /\ a.data # Null => mem'[a.data] = mem[a.data]
             /\ vecs'[last'.o] = MovedFrom
             /\ last'.freed = IF old = Null THEN <<>> ELSE <<old>>
             /\ old # Null => ~mem'[old].live
    ]_vars

\* A move assignment onto a vec that owned a buffer of its own.
C5_Witness ==
    /\ last.op = "assign_move" /\ last.v # last.o /\ last.st = "ok"
    /\ last.was.data # Null
    /\ vecs[last.v].size = 2
    /\ Len(last.freed) = 1

\* C6: assigning a vec to itself, by copy or by move, changes neither the
\* object nor the heap and frees nothing.
C6_SelfAssignUnchanged ==
    [][(last'.op \in {"assign_copy", "assign_move"} /\ last'.v = last'.o) =>
         /\ last'.st = "ok"
         /\ vecs' = vecs
         /\ mem' = mem
         /\ last'.freed = <<>>
    ]_vars

\* A self move assignment of a vec that holds elements.
C6_Witness ==
    /\ last.op = "assign_move" /\ last.v = last.o /\ last.st = "ok"
    /\ vecs[last.v].size = 2 /\ vecs[last.v].data # Null

\* C7: reserve(n) with n <= capacity changes nothing; reserve(n) with
\* n > capacity that returns has made the capacity n and kept the size and
\* the elements.
C7_ReserveExact ==
    [][last'.op = "reserve" =>
         LET v == last'.v
         IN  /\ last'.n <= vecs[v].cap =>
                  (last'.st = "ok" /\ vecs' = vecs /\ mem' = mem)
             /\ (last'.n > vecs[v].cap /\ last'.st = "ok") =>
                  /\ vecs'[v].cap = last'.n
                  /\ vecs'[v].size = vecs[v].size
                  /\ Elems(vecs'[v], mem') = Elems(vecs[v], mem)
    ]_vars

\* reserve(5) on a full vec of two elements has returned.
C7_Witness ==
    /\ last.op = "reserve" /\ last.st = "ok" /\ last.n = 5
    /\ last.was.size = 2 /\ last.was.cap = 2
    /\ Elems(vecs[last.v], mem) = <<1, 2>>

\* C8: shrink_to_fit makes the capacity the size and keeps the size and the
\* elements; with size 0 it returns and leaves capacity 0 and a null buffer.
C8_ShrinkToFit ==
    [][last'.op = "shrink_to_fit" =>
         LET v == last'.v
         IN  /\ last'.st = "ok" =>
                  /\ vecs'[v].cap = vecs'[v].size
                  /\ vecs'[v].size = vecs[v].size
                  /\ Elems(vecs'[v], mem') = Elems(vecs[v], mem)
             /\ vecs[v].size = 0 =>
                  /\ last'.st = "ok"
                  /\ vecs'[v].cap = 0
                  /\ vecs'[v].data = Null
    ]_vars

\* C9: a reserve or insert that throws leaves the vec and the heap as they
\* were; and whatever way the call ends, a vec whose buffer matched its
\* capacity is not left with a null buffer and a size or capacity above 0,
\* nor with a buffer that is no longer allocated.
C9_FailureLeavesVecIntact ==
    [][last'.op \in InsertOps \cup {"reserve"} =>
         LET v == last'.v
         IN  /\ last'.st = "threw" => (vecs'[v] = vecs[v] /\ mem' = mem)
             /\ BufferMatchesCapacity(vecs[v]) =>
                  /\ vecs'[v].data = Null =>
                        (vecs'[v].size = 0 /\ vecs'[v].cap = 0)
                  /\ vecs'[v].data # Null => mem'[vecs'[v].data].live
    ]_vars

\* An insert into a full vec of two elements has thrown.
C9_Witness ==
    /\ last.op = "insert" /\ last.st = "threw"
    /\ last.was.size = 2 /\ last.was.cap = 2

\* C10 (invariant I1): after every public operation size <= capacity.
C10_SizeWithinCapacity ==
    \A v \in VecIds : Alive(v) => vecs[v].size <= vecs[v].cap

\* A copy assignment onto a vec whose capacity was below the source's size.
C10_Witness ==
    /\ last.op = "assign_copy" /\ last.st = "ok" /\ last.v # last.o
    /\ last.was.alive /\ last.was.cap = 1 /\ last.was.size = 1
    /\ vecs[last.v].size = 2

\* C11: at(pos) with pos < size returns the reference operator[](pos) returns,
\* to an element of the vector; at(pos) with pos >= size, pos = size too,
\* throws out_of_range; either way size, capacity and elements stay as they
\* were.
C11_AtChecked ==
    [][last'.op = "at" =>
         LET v == last'.v IN
         /\ vecs' = vecs /\ mem' = mem
         /\ IF last'.pos < vecs[v].size
              THEN /\ last'.st = "ok"
                   /\ last'.ret = op_index(vecs[v], last'.pos)
                   /\ last'.ret.addr = vecs[v].data
                   /\ last'.ret.off < vecs[v].size
              ELSE /\ last'.st = "threw"
                   /\ last'.ret = NoRet]_vars

\* at(size()) was called on a vector that holds elements.
C11_Witness ==
    /\ last.op = "at" /\ last.st = "threw"
    /\ last.was.size > 0 /\ last.pos = last.was.size
    /\ vecs[last.v] = last.was

\* C12: lhs == rhs is true exactly when the two vectors have the same size and
\* the same element at every index below it, whatever their capacities and
\* whatever the slots from size on hold; rhs == lhs gives the same answer, a
\* vector equals itself, and lhs != rhs is the negation of lhs == rhs.  The
\* comparison changes neither vector.
C12_Equality ==
    [][last'.op \in {"eq", "ne"} =>
         LET lhs   == vecs[last'.v]
             rhs   == vecs[last'.o]
             equal == /\ lhs.size = rhs.size
                      /\ \A i \in 1..lhs.size :
                            Elems(lhs, mem)[i] = Elems(rhs, mem)[i]
         IN  /\ last'.st = "ok"
             /\ vecs' = vecs /\ mem' = mem
             /\ last'.val = IF last'.op = "eq" THEN equal ELSE ~equal
             /\ last'.v = last'.o /\ last'.op = "eq" => last'.val
             /\ \A r \in op_eq(rhs, lhs, mem, last'.v = last'.o) :
                   r.st = "ok" /\ r.val = equal
             /\ \A r \in op_eq(lhs, rhs, mem, last'.v = last'.o) :
                   r.val = IF last'.op = "ne" THEN ~last'.val ELSE last'.val
        ]_vars

\* Two vectors of different capacities compared equal, and the first one has
\* a value left in a slot past its size that the second has no slot for.
C12_Witness ==
    /\ last.op = "eq" /\ last.st = "ok" /\ last.val
    /\ last.v # last.o
    /\ vecs[last.v].size >= 1
    /\ vecs[last.v].cap > vecs[last.v].size
    /\ vecs[last.o].cap = vecs[last.o].size
    /\ mem[vecs[last.v].data].cells[vecs[last.v].size + 1] \in Val

\* C13: a copy-constructed vector has the capacity of the source's size, not of
\* the source's capacity; a copy assignment keeps the destination's capacity
\* and buffer when that capacity is at least the source's size, and makes the
\* capacity the source's size otherwise.
C13_CopySizing ==
    [][last'.op \in CopyOps /\ last'.st = "ok" /\ last'.v # last'.o =>
         LET dst == vecs[last'.v]
             src == vecs[last'.o]
             new == vecs'[last'.v]
         IN  IF last'.op = "ctor_copy" THEN new.cap = src.size
             ELSE IF dst.cap >= src.size
               THEN new.cap = dst.cap /\ new.data = dst.data
               ELSE new.cap = src.size]_vars

\* C14: a copy construction or copy assignment reads no more slots of the
\* source's buffer than the source's capacity, also when the destination's
\* capacity is larger than the source's and when the source is a moved-from
\* vector with a null buffer.
C14_CopyReadsInsideSource ==
    [][last'.op \in CopyOps /\ last'.v # last'.o =>
         /\ last'.nread <= vecs[last'.o].cap
         /\ vecs[last'.o].data = Null => last'.nread = 0]_vars

\* The inserts whose argument is a reference to an element of the vector.
AliasedInsertOps == {"insert_ref", "insert_count_ref"}

\* C15: an insert whose elem argument refers to an element of the vector it
\* is made on inserts the value that element held before the call, when the
\* insert reallocates and when it shifts the elements in place alike: the
\* elements after the call are those before it with that value spliced in at
\* pos.
C15_InsertAliased ==
    [][last'.op \in AliasedInsertOps /\ last'.st = "ok" =>
         LET v   == last'.v
             old == Elems(vecs[v], mem)
             new == Elems(vecs'[v], mem')
             pos == last'.pos
             k   == Len(last'.items)
         IN  /\ Len(new) = Len(old) + k
             /\ \A i \in 1..Len(new) :
                   new[i] = IF i <= pos THEN old[i]
                            ELSE IF i <= pos + k THEN last'.items[i - pos]
                            ELSE old[i - k]]_vars

====
